---------------------------- MODULE Spec2Model ----------------------------
(***************************************************************************)
(* Model of simulate_projectile (src/app/simulation.py): semi-implicit     *)
(* Euler stepping, ground-crossing backtrack and bounce, termination and   *)
(* telemetry recording.                                                    *)
(*                                                                         *)
(* Numbers are exact rationals <<n, d>> (d > 0, lowest terms): the model   *)
(* follows the real-number reading of the arithmetic; floating-point       *)
(* rounding, overflow to inf and NaN are outside the model.                *)
(***************************************************************************)
EXTENDS Integers, Sequences, FiniteSets, TLC

\* ------------------------------------------------------------ bounds
MaxV0 == 2
MaxH0 == 2
MaxBouncesCap == 2

\* ------------------------------------------------------------ rationals
\* GCD and Norm are functions, so their arguments are evaluated once
IAbs(n) == IF n < 0 THEN -n ELSE n

GCD[a \in Nat, b \in Nat] == IF b = 0 THEN a ELSE GCD[b, a % b]

Norm[n \in Int, d \in Int] ==
  LET s == IF d < 0 THEN -1 ELSE 1
      k == GCD[IAbs(n), IAbs(d)]
  IN  <<(s * n) \div k, (s * d) \div k>>

Rat(n) == <<n, 1>>
Zero == <<0, 1>>
One == <<1, 1>>

RAdd(a, b) ==
  LET k == GCD[a[2], b[2]]
  IN  Norm[a[1] * (b[2] \div k) + b[1] * (a[2] \div k), (a[2] \div k) * b[2]]
RNeg(a) == <<-a[1], a[2]>>
RSub(a, b) == RAdd(a, RNeg(b))
RMul(a, b) ==
  LET k1 == GCD[IAbs(a[1]), b[2]]
      k2 == GCD[IAbs(b[1]), a[2]]
  IN  Norm[(a[1] \div k1) * (b[1] \div k2), (a[2] \div k2) * (b[2] \div k1)]
RDiv(a, b) == RMul(a, Norm[b[2], b[1]])
\* n1/d1 < n2/d2, compared by integer parts and then by the reciprocals of the
\* fractional parts, so that no product is formed
Less[n1 \in Int, d1 \in Nat, n2 \in Int, d2 \in Nat] ==
  IF n1 \div d1 # n2 \div d2 THEN n1 \div d1 < n2 \div d2
  ELSE IF n2 % d2 = 0 THEN FALSE
  ELSE IF n1 % d1 = 0 THEN TRUE
  ELSE Less[d2, n2 % d2, d1, n1 % d1]
RLt(a, b) == Less[a[1], a[2], b[1], b[2]]
RLe(a, b) == ~RLt(b, a)
RAbs(a) == <<IAbs(a[1]), a[2]>>
RSign(a) == IF a[1] > 0 THEN One ELSE IF a[1] < 0 THEN RNeg(One) ELSE Zero

\* ------------------------------------------------------------ constants
MAX_TIME == Rat(60)
REST_EPS == <<1, 20>>
None == <<>>

\* ------------------------------------------------------------ inputs
\* launch angles with rational direction cosines: 0, 90, -90 degrees and
\* atan(3/4) (about 36.87 degrees)
AngleDegs == {"0", "90", "-90", "atan34"}
Cos(angle_deg) ==
  CASE angle_deg = "0" -> One
    [] angle_deg = "90" -> Zero
    [] angle_deg = "-90" -> Zero
    [] angle_deg = "atan34" -> <<4, 5>>
Sin(angle_deg) ==
  CASE angle_deg = "0" -> Zero
    [] angle_deg = "90" -> One
    [] angle_deg = "-90" -> RNeg(One)
    [] angle_deg = "atan34" -> <<3, 5>>

CoarseConfigs ==
  [v0 : {Rat(10 * k) : k \in 0..MaxV0},
   angle_deg : AngleDegs,
   h0 : {Rat(50 * k) : k \in 0..MaxH0},
   g : {Rat(0), Rat(1)},
   drag_coeff : {Zero, <<1, 5>>},
   include_air_resistance : BOOLEAN,
   dt : {Rat(5), Rat(10)},
   restitution : {Zero, <<3, 5>>, One},
   ground_friction : {<<1, 20>>, One},
   max_bounces : 1..MaxBouncesCap]

\* launches from rest on the ground with a fine time step
DegenerateConfigs ==
  [v0 : {Zero},
   angle_deg : {"0", "atan34"},
   h0 : {Zero},
   g : {Rat(1), Rat(10)},
   drag_coeff : {Zero, <<1, 5>>},
   include_air_resistance : BOOLEAN,
   dt : {<<1, 100>>},
   restitution : {Zero, <<3, 5>>},
   ground_friction : {<<1, 20>>},
   max_bounces : 1..(MaxBouncesCap + 1)]

Configs == CoarseConfigs \cup DegenerateConfigs

\* the configurations the termination check runs over: drag is switched on
\* exactly when the medium has a drag coefficient, as the caller does
LiveConfigs ==
  {c \in Configs :
     /\ c.angle_deg # "0"
     /\ c.ground_friction = <<1, 20>>
     /\ c.include_air_resistance = (c.drag_coeff # Zero)}

\* ------------------------------------------------------------ state
VARIABLES cfg, x, y, vx, vy, ax, ay, t, traj, telem, bounces,
          first_impact_x, first_impact_t, pc, exit, steps, last, ret

vars == <<cfg, x, y, vx, vy, ax, ay, t, traj, telem, bounces,
          first_impact_x, first_impact_t, pc, exit, steps, last, ret>>

\* ------------------------------------------------------------ force model
ForceAx(c, v) ==
  IF c.include_air_resistance
  THEN RMul(RMul(RNeg(c.drag_coeff), RSign(v)), RAbs(v))
  ELSE Zero
ForceAy(c, v) ==
  IF c.include_air_resistance
  THEN RSub(RNeg(c.g), RMul(RMul(c.drag_coeff, RSign(v)), RAbs(v)))
  ELSE RNeg(c.g)

Row(t_, x_, y_, vx_, vy_, ax_, ay_) ==
  [t |-> t_, x |-> x_, y |-> y_, vx |-> vx_, vy |-> vy_, ax |-> ax_, ay |-> ay_]

Record_twice(seq, row) == Append(Append(seq, row), row)
Record(seq, row) == Append(seq, row)

\* ------------------------------------------------------------ pieces of the loop body
LoopGuard_100(t_) == RLe(t_, Rat(100))
LoopGuard(t_) == RLe(t_, MAX_TIME)

GroundCrossing_up(y_, vy_) == RLt(y_, Zero) /\ RLt(Zero, vy_)
GroundCrossing(y_, vy_) == RLt(y_, Zero) /\ RLt(vy_, Zero)

Alpha_fromEnd(y_prev, denom) ==
  IF denom # Zero THEN RSub(One, RDiv(y_prev, denom)) ELSE Zero
Alpha(y_prev, denom) == IF denom # Zero THEN RDiv(y_prev, denom) ELSE Zero

CrossX(x_prev, alpha, x_) == RAdd(x_prev, RMul(alpha, RSub(x_, x_prev)))

CrossT_back(t_prev, alpha, dt) == RSub(t_prev, RMul(alpha, dt))
CrossT(t_prev, alpha, dt) == RAdd(t_prev, RMul(alpha, dt))

LatchImpact_overwrite(first, v) == v
LatchImpact(first, v) == IF first = None THEN v ELSE first

BounceVy_nosign(vy_, restitution) == RMul(vy_, restitution)
BounceVy(vy_, restitution) == RMul(RNeg(vy_), restitution)

BounceVx_mu(vx_, ground_friction) == RMul(vx_, ground_friction)
BounceVx(vx_, ground_friction) == RMul(vx_, RSub(One, ground_friction))

BounceLimit_gt(b, max_bounces) == b > max_bounces
BounceLimit(b, max_bounces) == b >= max_bounces

TinyMotion_or(vx_, vy_) == RLt(RAbs(vy_), REST_EPS) \/ RLt(RAbs(vx_), REST_EPS)
TinyMotion(vx_, vy_) == RLt(RAbs(vy_), REST_EPS) /\ RLt(RAbs(vx_), REST_EPS)

AtRestOnGround(y_, vx_, vy_) == y_ = Zero /\ TinyMotion(vx_, vy_)

NoLast == [cross |-> FALSE, x_prev |-> Zero, y_prev |-> Zero, t_prev |-> Zero,
           x_post |-> Zero, y_post |-> Zero, vx_post |-> Zero, vy_post |-> Zero,
           denom |-> Zero, alpha |-> Zero]

\* ------------------------------------------------------------ behaviour
Init ==
  /\ cfg \in Configs
  /\ vx = RMul(cfg.v0, Cos(cfg.angle_deg))
  /\ vy = RMul(cfg.v0, Sin(cfg.angle_deg))
  /\ x = Zero
  /\ y = cfg.h0
  /\ t = Zero
  /\ ax = ForceAx(cfg, vx)
  /\ ay = ForceAy(cfg, vy)
  /\ traj = <<(<<x, y>>)>>
  /\ telem = <<Row(t, x, y, vx, vy, ax, ay)>>
  /\ bounces = 0
  /\ first_impact_x = None
  /\ first_impact_t = None
  /\ pc = "loop"
  /\ exit = "none"
  /\ steps = 0
  /\ last = NoLast
  /\ ret = None

\* one iteration of the while loop; every local is bound to its value once
Step ==
  /\ pc = "loop"
  /\ LoopGuard(t)
  /\ \E x_prev \in {x}, y_prev \in {y}, t_prev \in {t} :
     \E vx1 \in {RAdd(vx, RMul(ax, cfg.dt))}, vy1 \in {RAdd(vy, RMul(ay, cfg.dt))} :
     \E x1 \in {RAdd(x_prev, RMul(vx1, cfg.dt))},
        y1 \in {RAdd(y_prev, RMul(vy1, cfg.dt))},
        t1 \in {RAdd(t_prev, cfg.dt)},
        ax1 \in {ForceAx(cfg, vx1)},
        ay1 \in {ForceAy(cfg, vy1)} :
     \E cross \in {GroundCrossing(y1, vy1)}, denom \in {RSub(y_prev, y1)} :
     \E alpha \in {IF cross THEN Alpha(y_prev, denom) ELSE Zero} :
     \E x2 \in {IF cross THEN CrossX(x_prev, alpha, x1) ELSE x1},
        y2 \in {IF cross THEN Zero ELSE y1},
        t2 \in {IF cross THEN CrossT(t_prev, alpha, cfg.dt) ELSE t1},
        vy2 \in {IF cross THEN BounceVy(vy1, cfg.restitution) ELSE vy1},
        vx2 \in {IF cross THEN BounceVx(vx1, cfg.ground_friction) ELSE vx1},
        b2 \in {IF cross THEN bounces + 1 ELSE bounces} :
     \E stopLimit \in {cross /\ BounceLimit(b2, cfg.max_bounces)} :
     \E stopTiny \in {cross /\ ~stopLimit /\ TinyMotion(vx2, vy2)} :
     \E stopRest \in {~stopLimit /\ ~stopTiny /\ AtRestOnGround(y2, vx2, vy2)} :
         /\ x' = x2
         /\ y' = y2
         /\ t' = t2
         /\ vx' = vx2
         /\ vy' = vy2
         /\ ax' = ax1
         /\ ay' = ay1
         /\ bounces' = b2
         /\ first_impact_x' = IF cross THEN LatchImpact(first_impact_x, x2)
                                       ELSE first_impact_x
         /\ first_impact_t' = IF cross /\ first_impact_x = None THEN t2
                                       ELSE first_impact_t
         /\ telem' = Record(telem, Row(t2, x2, y2, vx2, vy2, ax1, ay1))
         /\ traj' = Record(traj, <<x2, y2>>)
         /\ exit' = IF stopLimit THEN "BounceLimitReached"
                    ELSE IF stopTiny \/ stopRest THEN "Resting"
                    ELSE "none"
         /\ pc' = IF stopLimit \/ stopTiny \/ stopRest THEN "exit" ELSE "loop"
         /\ steps' = steps + 1
         /\ last' = [cross |-> cross, x_prev |-> x_prev, y_prev |-> y_prev,
                     t_prev |-> t_prev, x_post |-> x1, y_post |-> y1,
                     vx_post |-> vx1, vy_post |-> vy1,
                     denom |-> denom, alpha |-> alpha]
         /\ UNCHANGED <<cfg, ret>>

\* the while condition fails
TimedOut ==
  /\ pc = "loop"
  /\ ~LoopGuard(t)
  /\ pc' = "exit"
  /\ exit' = "TimedOut"
  /\ UNCHANGED <<cfg, x, y, vx, vy, ax, ay, t, traj, telem, bounces,
                 first_impact_x, first_impact_t, steps, last, ret>>

Return ==
  /\ pc = "exit"
  /\ pc' = "returned"
  /\ ret' = [traj |-> traj, total_time |-> t, telem |-> telem,
             first_impact_x |-> first_impact_x,
             first_impact_t |-> first_impact_t]
  /\ UNCHANGED <<cfg, x, y, vx, vy, ax, ay, t, traj, telem, bounces,
                 first_impact_x, first_impact_t, exit, steps, last>>

Next == Step \/ TimedOut \/ Return

Spec == Init /\ [][Next]_vars

\* the call is sequential and runs to completion
InitLive == Init /\ cfg \in LiveConfigs
FairSpec == InitLive /\ [][Next]_vars /\ WF_vars(Next)

\* ------------------------------------------------------------ properties
Floor(a) == a[1] \div a[2]
Ceil(a) == -((-a[1]) \div a[2])
Last(seq) == seq[Len(seq)]
Finished == pc # "loop"
Returned == pc = "returned"

\* the post-step (pre-resolution) state that follows recorded row p
PostVx(p) == RAdd(p.vx, RMul(p.ax, cfg.dt))
PostVy(p) == RAdd(p.vy, RMul(p.ay, cfg.dt))
PostY(p) == RAdd(p.y, RMul(PostVy(p), cfg.dt))
\* row i (i >= 2) was produced by a step classified as a ground crossing
IsCrossRow(i) == RLt(PostY(telem[i - 1]), Zero) /\ RLt(PostVy(telem[i - 1]), Zero)
CrossRows == {i \in 2..Len(telem) : IsCrossRow(i)}
FirstCrossRow == CHOOSE i \in CrossRows : \A j \in CrossRows : i <= j

InDomain(c) ==
  /\ RLe(Zero, c.h0) /\ RLt(Zero, c.dt) /\ RLe(Zero, c.g)
  /\ RLe(Zero, c.drag_coeff)
  /\ RLe(Zero, c.restitution) /\ RLe(c.restitution, One)
  /\ RLe(Zero, c.ground_friction) /\ RLe(c.ground_friction, One)

\* C1: every recorded Telemetry and Trajectory row has y >= 0; a post-step
\* height below zero is always a ground crossing and is recorded as y = 0.
C1_NonNegativeRows ==
  InDomain(cfg) =>
    /\ \A i \in 1..Len(telem) : RLe(Zero, telem[i].y)
    /\ \A i \in 1..Len(traj) : RLe(Zero, traj[i][2])
    /\ \A i \in 2..Len(telem) :
         RLt(PostY(telem[i - 1]), Zero) => IsCrossRow(i) /\ telem[i].y = Zero
C1_Witness ==
  /\ Len(telem) >= 2
  /\ RLt(PostY(telem[Len(telem) - 1]), Zero)
  /\ RLt(Zero, telem[Len(telem) - 1].y)
  /\ Last(telem).y = Zero

C2_ExitOK ==
  \/ /\ exit = "BounceLimitReached"
     /\ IsCrossRow(Len(telem))
     /\ bounces >= cfg.max_bounces
  \/ /\ exit = "Resting"
     /\ y = Zero
     /\ RLt(RAbs(vx), <<1, 20>>) /\ RLt(RAbs(vy), <<1, 20>>)
  \/ /\ exit = "TimedOut"
     /\ RLt(Rat(60), t)
\* C2: the loop eventually stops, and it stops only by the bounce limit right
\* after a crossing, by rest (|vx|, |vy| < 0.05 at y = 0), or by t > 60.
C2_Terminates ==
  /\ <>(pc = "returned")
  /\ [](Finished => C2_ExitOK)
C2_Witness == Returned /\ exit = "TimedOut" /\ bounces >= 1

\* C3 (as stated): a run that ends off the rest threshold has bounces = N.
C3_Original ==
  (Returned /\ ~(y = Zero /\ TinyMotion(vx, vy))) => bounces = cfg.max_bounces
\* C3 (amended): a run that ends off the rest threshold and within the time
\* ceiling has bounces = N; the counter is 0 at the start and always equals
\* the number of resolved ground crossings.
C3_BounceCap ==
  /\ bounces = Cardinality(CrossRows)
  /\ steps = 0 => bounces = 0
  /\ bounces <= cfg.max_bounces
  /\ (Finished /\ ~(y = Zero /\ TinyMotion(vx, vy)) /\ RLe(t, MAX_TIME))
        => bounces = cfg.max_bounces
C3_Witness ==
  /\ Returned /\ cfg.max_bounces = 2 /\ bounces = 2
  /\ ~(y = Zero /\ TinyMotion(vx, vy)) /\ RLe(t, MAX_TIME)

\* C4: first_impact_x / first_impact_t are absent until the first crossing,
\* are set together to the x and t recorded for that crossing, are not
\* changed by later crossings, and are what the call returns.
C4_MetadataLatch ==
  /\ (first_impact_x = None) <=> (first_impact_t = None)
  /\ (first_impact_x = None) <=> (CrossRows = {})
  /\ CrossRows # {} =>
       /\ first_impact_x = telem[FirstCrossRow].x
       /\ first_impact_t = telem[FirstCrossRow].t
  /\ Returned =>
       /\ ret.first_impact_x = first_impact_x
       /\ ret.first_impact_t = first_impact_t
C4_Witness ==
  /\ Returned /\ Cardinality(CrossRows) >= 2
  /\ ret.first_impact_x # Last(telem).x
  /\ ret.first_impact_t # Last(telem).t
  /\ IsCrossRow(Len(telem))

\* C5: a crossing row carries vy = -e * post-step vy, vx = (1 - mu) * post-step
\* vx and the acceleration computed from the post-step (pre-bounce) velocity;
\* e = 0.6, mu = 0.05, vy = -10, vx = 10 gives vy = 6, vx = 9.5.
C5_BounceResponse ==
  /\ \A i \in CrossRows :
       LET p == telem[i - 1]
       IN  /\ telem[i].vy = RMul(RNeg(cfg.restitution), PostVy(p))
           /\ telem[i].vx = RMul(RSub(One, cfg.ground_friction), PostVx(p))
           /\ telem[i].ax = ForceAx(cfg, PostVx(p))
           /\ telem[i].ay = ForceAy(cfg, PostVy(p))
  /\ BounceVy(Rat(-10), <<3, 5>>) = Rat(6)
  /\ BounceVx(Rat(10), <<1, 20>>) = <<19, 2>>
C5_Witness ==
  /\ Len(telem) >= 2
  /\ IsCrossRow(Len(telem))
  /\ cfg.include_air_resistance /\ cfg.drag_coeff # Zero
  /\ Last(telem).vy # Zero /\ Last(telem).vx # Zero
  /\ Last(telem).ay # ForceAy(cfg, Last(telem).vy)
  /\ Last(telem).ax # ForceAx(cfg, Last(telem).vx)

Degenerate(c) == c.v0 = Zero /\ c.h0 = Zero /\ RLt(Zero, c.g)

\* C6 (as stated): a degenerate launch ends at t = 0 in Resting with a single
\* Telemetry row.
C6_Original ==
  (Degenerate(cfg) /\ Returned) =>
     exit = "Resting" /\ t = Zero /\ Len(telem) = 1
\* C6 (amended): a degenerate launch never returns a single row: its first
\* step is a ground crossing resolved at alpha = 0, recorded at t = 0, x = 0,
\* y = 0 with vy = e*g*dt; the run stops right after that step exactly when
\* max_bounces = 1 (bounce limit) or e*g*dt < 0.05 (Resting).
C6_DegenerateLaunch ==
  (Degenerate(cfg) /\ steps >= 1) =>
     /\ Len(telem) >= 2
     /\ IsCrossRow(2)
     /\ telem[2].t = Zero /\ telem[2].x = Zero /\ telem[2].y = Zero
     /\ telem[2].vx = Zero
     /\ telem[2].vy = RMul(cfg.restitution, RMul(cfg.g, cfg.dt))
     /\ first_impact_x = Zero /\ first_impact_t = Zero
     /\ (Finished /\ steps = 1) <=>
           \/ cfg.max_bounces = 1
           \/ RLt(RMul(cfg.restitution, RMul(cfg.g, cfg.dt)), REST_EPS)
     /\ (Finished /\ steps = 1 /\ cfg.max_bounces > 1) => exit = "Resting"
     /\ (Finished /\ steps = 1 /\ cfg.max_bounces = 1) => exit = "BounceLimitReached"
C6_Witness ==
  /\ Degenerate(cfg) /\ Returned /\ exit = "Resting"
  /\ Len(telem) = 3 /\ t = Zero /\ cfg.max_bounces > 2

\* C7: recorded times never decrease along the Telemetry, crossing rows
\* included, and the returned total time is the t of the last row.
C7_TimeOrder ==
  /\ \A i \in 2..Len(telem) : RLe(telem[i - 1].t, telem[i].t)
  /\ Last(telem).t = t
  /\ Returned => ret.total_time = Last(ret.telem).t
C7_Witness ==
  /\ Returned
  /\ \E i \in CrossRows :
       /\ RLt(telem[i - 1].t, telem[i].t)
       /\ RLt(telem[i].t, RAdd(telem[i - 1].t, cfg.dt))
       /\ i < Len(telem)

SeedRow(c) ==
  LET vx0 == RMul(c.v0, Cos(c.angle_deg))
      vy0 == RMul(c.v0, Sin(c.angle_deg))
  IN  Row(Zero, Zero, c.h0, vx0, vy0, ForceAx(c, vx0), ForceAy(c, vy0))

C8_Shape ==
  /\ Len(telem) = 1 + steps
  /\ Len(traj) = 1 + steps
  /\ telem[1] = SeedRow(cfg)
  /\ \A i \in 1..Len(telem) : traj[i] = <<telem[i].x, telem[i].y>>
  /\ Returned => ret.telem = telem /\ ret.traj = traj
C8_Step ==
  /\ SubSeq(telem', 1, Len(telem)) = telem
  /\ SubSeq(traj', 1, Len(traj)) = traj
  /\ (pc = "loop" /\ pc' = "loop") => Len(telem') = Len(telem) + 1
  /\ (pc = "loop" /\ pc' = "exit" /\ exit' # "TimedOut") => Len(telem') = Len(telem) + 1
  /\ (pc # "loop" \/ exit' = "TimedOut") => telem' = telem /\ traj' = traj
\* C8: both sequences start with the seed row, every loop iteration appends
\* exactly one row to each on every exit path, Trajectory[i] is (x, y) of
\* Telemetry[i], and recorded rows are never changed, removed or reordered.
C8_AppendOnly == [](C8_Shape) /\ [][C8_Step]_vars
C8_Witness ==
  /\ Returned /\ steps >= 3 /\ exit = "Resting"
  /\ ~IsCrossRow(Len(telem))

\* C9 (as stated): the number of steps is at most ceil(60 / dt).
C9_Original == steps <= Ceil(RDiv(MAX_TIME, cfg.dt))
\* C9 (amended): the number of steps is at most floor(60 / dt) + 1 plus the
\* number of ground crossings, which is at most max_bounces.
C9_StepBound ==
  /\ steps <= Floor(RDiv(MAX_TIME, cfg.dt)) + 1 + bounces
  /\ bounces <= cfg.max_bounces
C9_Witness ==
  /\ Returned /\ bounces >= 1
  /\ steps = Floor(RDiv(MAX_TIME, cfg.dt)) + 1 + bounces
  /\ steps > Ceil(RDiv(MAX_TIME, cfg.dt)) + 1

\* C10: at every ground crossing y_prev >= 0 and denom > 0, so the alpha = 0
\* fallback is not taken and 0 <= alpha < 1; the rewritten t lies in
\* [t_prev, t_prev + dt) and the rewritten x between x_prev and the post-step x.
C10_Backtrack ==
  (InDomain(cfg) /\ last.cross) =>
     /\ RLe(Zero, last.y_prev)
     /\ RLt(Zero, last.denom)
     /\ last.denom = RSub(last.y_prev, last.y_post)
     /\ last.alpha = RDiv(last.y_prev, last.denom)
     /\ RLe(Zero, last.alpha) /\ RLt(last.alpha, One)
     /\ RLe(last.t_prev, t) /\ RLt(t, RAdd(last.t_prev, cfg.dt))
     /\ \/ RLe(last.x_prev, x) /\ RLe(x, last.x_post)
        \/ RLe(last.x_post, x) /\ RLe(x, last.x_prev)
     /\ Last(telem).t = t /\ Last(telem).x = x
C10_Witness ==
  /\ last.cross
  /\ RLt(Zero, last.alpha)
  /\ RLt(last.x_prev, x) /\ RLt(x, last.x_post)
  /\ bounces = 2
=============================================================================
